---- MODULE Spec2Model ----
(***************************************************************************)
(* Model of src/main/ktnumpy/jni/source/java_classes/Short.c:              *)
(*                                                                         *)
(*   static jmethodID newShortID = 0;                                      *)
(*   jobject java_lang_Short_new (JNIEnv env, jshort s)                   *)
(*   {                                                                     *)
(*     if (!JNI_METHOD(newShortID, env, SHORT_TYPE, "<init>", "(S)V"))     *)
(*       { return NULL; }                                                  *)
(*     return env->NewObject (env, SHORT_TYPE, newShortID, s);          *)
(*   }                                                                     *)
(*                                                                         *)
(* Spec     : calls run one after another (each call is one action).       *)
(* SpecConc : one call per thread, interleaved at the granularity of the   *)
(*            loads and stores of newShortID and of the JNI calls.         *)
(***************************************************************************)
EXTENDS Integers, Sequences, FiniteSets

\* ------------------------------------------------------------------ bounds
NumVals == 4        \* how many sample jshort values the callers pass
NumEnvs == 2        \* JNIEnv handles (one per attached thread)
MaxHeap == 2        \* objects the managed heap may hold
MaxLookups == 3     \* GetMethodID invocations observed by the instrumentation

ShortSamples == <<0, -1, 32767, 5, -32768, 255, -129>>
ShortVals == {ShortSamples[i] : i \in 1..NumVals}
Envs == 1..NumEnvs

\* --------------------------------------------------------------- constants
NULL == 0           \* the absence value, also the empty jmethodID
ShortInitID == 1    \* the jmethodID the runtime gives for java.lang.Short.<init>(S)V

VARIABLES
  newShortID,   \* static jmethodID newShortID
  classAvail,   \* the environment can resolve SHORT_TYPE (java.lang.Short)
  ctorAvail,    \* the environment can resolve the constructor "<init>" "(S)V"
  heap,         \* managed heap: heap[ref] is the unboxed value of object ref
  pending,      \* pending[e]: the runtime's pending-exception indicator of env e
  lookups,      \* number of GetMethodID invocations so far
  issued,       \* history: <<ref, requested value, env>> of every successful call
  last,         \* history: what the most recent completed call did
  pc,           \* SpecConc: position of each thread inside java_lang_Short_new
  frame         \* SpecConc: each thread's parameters and locals

vars == <<newShortID, classAvail, ctorAvail, heap, pending, lookups, issued, last, pc, frame>>

\* ------------------------------------------------- values and conversions
\* A jshort's 16 bits, and the value a 16-bit / 8-bit pattern stands for.
Bits16(x) == x % 65536
SignExtend16(b) == IF b >= 32768 THEN b - 65536 ELSE b
SignExtend8(b) == IF b >= 128 THEN b - 256 ELSE b

\* A jbyte parameter (as in the sibling Byte.c) keeps only the low 8 bits.
PassArgAsByte(s) == SignExtend8(s % 256)
\* The jshort parameter s handed to the variadic NewObject: promoted to int by
\* sign extension of its 16 bits.
PassArg(s) == SignExtend16(Bits16(s))

\* The (S)V constructor reads its int-sized argument back as a jshort.
ToJShort(a) == SignExtend16(Bits16(a))

\* ------------------------------------------------------- runtime primitives
\* env->GetMethodID(env, SHORT_TYPE, "<init>", "(S)V"): the identifier, or
\* NULL (with an exception pending) when the class or constructor is missing.
GetMethodID(cA, mA) == IF cA /\ mA THEN ShortInitID ELSE NULL

\* JNI_METHOD(var, env, type, name, sig): true when var is already cached,
\* otherwise resolve it; var holds the identifier after a successful resolution.
JNI_METHOD(var, cA, mA) ==
  IF var # NULL
    THEN [var |-> var, ok |-> TRUE, looked |-> FALSE]
    ELSE LET r == GetMethodID(cA, mA)
         IN  [var |-> r, ok |-> r # NULL, looked |-> TRUE]

\* Resolving on every call, ignoring what is cached.
ResolveUncached(var, cA, mA) ==
  LET r == GetMethodID(cA, mA)
  IN  [var |-> r, ok |-> r # NULL, looked |-> TRUE]
\* Remembering a failed resolution with a non-empty sentinel.
ResolveCachingFailure(var, cA, mA) ==
  LET r == JNI_METHOD(var, cA, mA)
  IN  IF r.ok THEN r ELSE [r EXCEPT !.var = -1]
\* Line 23: the macro applied to newShortID, SHORT_TYPE, "<init>", "(S)V".
ResolveNewShortID(var, cA, mA) == JNI_METHOD(var, cA, mA)

\* Falling through to NewObject although resolution failed.
EarlyReturnMissing(ok) == FALSE
\* Lines 23-26: if (!JNI_METHOD(...)) { return NULL; }
EarlyReturn(ok) == ~ok

\* Clearing the pending exception before returning NULL.
OnFailureClear(p, e) == [p EXCEPT ![e] = FALSE]
\* Lines 24-26: the failure block only returns; it leaves the runtime's
\* exception state as the failed lookup set it.
OnFailure(p, e) == p

\* A value-keyed object cache in place of construction (Short.valueOf style).
NewObjectCached(h, mid, a) ==
  LET v == ToJShort(a)
      hits == {r \in 1..Len(h) : h[r] = v}
  IN  IF hits # {}
        THEN {[heap |-> h, ref |-> CHOOSE r \in hits : TRUE, allocs |-> 0]}
        ELSE {[heap |-> Append(h, v), ref |-> Len(h) + 1, allocs |-> 1]}
\* env->NewObject(env, SHORT_TYPE, mid, a): the set of possible outcomes.
\* With the Short constructor's identifier it allocates one object holding the
\* argument read as a jshort. Any other identifier is undefined in JNI: the
\* runtime may fail or allocate an object of unspecified content.
NewObject(h, mid, a) ==
  IF mid = ShortInitID
    THEN {[heap |-> Append(h, ToJShort(a)), ref |-> Len(h) + 1, allocs |-> 1]}
    ELSE {[heap |-> h, ref |-> NULL, allocs |-> 0]}
         \cup {[heap |-> Append(h, v), ref |-> Len(h) + 1, allocs |-> 1] : v \in ShortVals}

\* ---------------------------------------------------------------- records
NoCall ==
  [called |-> FALSE, env |-> 1, arg |-> 0, idAtEntry |-> NULL,
   availAtCall |-> FALSE, looked |-> FALSE, resolved |-> FALSE,
   constructed |-> FALSE, passed |-> 0, mid |-> NULL, allocs |-> 0, ret |-> NULL]

IdleFrame == [s |-> 0, r |-> NULL, looked |-> FALSE, failed |-> FALSE,
              mid |-> NULL, ret |-> NULL, emptyAtEntry |-> FALSE]

Init ==
  /\ newShortID = 0                       \* line 19
  /\ classAvail \in BOOLEAN
  /\ ctorAvail \in BOOLEAN
  /\ heap = <<>>
  /\ pending = [e \in Envs |-> FALSE]
  /\ lookups = 0
  /\ issued = <<>>
  /\ last = NoCall
  /\ pc = [t \in Envs |-> "idle"]
  /\ frame = [t \in Envs |-> IdleFrame]

Quiescent == \A t \in Envs : pc[t] = "idle"

\* ------------------------------------------------- the call, start to end
java_lang_Short_new(e, s) ==
  LET r == ResolveNewShortID(newShortID, classAvail, ctorAvail)
      raised == IF r.looked /\ ~r.ok THEN [pending EXCEPT ![e] = TRUE] ELSE pending
      rec == [NoCall EXCEPT !.called = TRUE, !.env = e,
                            !.arg = s, !.idAtEntry = newShortID,
                            !.availAtCall = (classAvail /\ ctorAvail),
                            !.looked = r.looked, !.resolved = (r.looked /\ r.ok)]
  IN  /\ r.looked => lookups < MaxLookups
      /\ lookups' = IF r.looked THEN lookups + 1 ELSE lookups
      /\ newShortID' = r.var
      /\ IF EarlyReturn(r.ok)
           THEN /\ pending' = OnFailure(raised, e)
                /\ heap' = heap
                /\ issued' = issued
                /\ last' = rec
           ELSE /\ Len(heap) < MaxHeap
                /\ pending' = raised
                /\ \E out \in NewObject(heap, newShortID', PassArg(s)) :
                     /\ heap' = out.heap
                     /\ issued' = IF out.ref # NULL
                                    THEN Append(issued, <<out.ref, s, e>>)
                                    ELSE issued
                     /\ last' = [rec EXCEPT !.constructed = TRUE,
                                            !.passed = ToJShort(PassArg(s)),
                                            !.mid = newShortID',
                                            !.allocs = out.allocs,
                                            !.ret = out.ref]
      /\ UNCHANGED <<classAvail, ctorAvail, pc, frame>>

Call == \E e \in Envs, s \in ShortVals : java_lang_Short_new(e, s)

\* --------------------------------------------------------- the environment
\* The host (or a test double) makes the boxed class (un)available.
SetClassAvail ==
  /\ Quiescent
  /\ classAvail' = ~classAvail
  /\ UNCHANGED <<newShortID, ctorAvail, heap, pending, lookups, issued, last, pc, frame>>

\* The host (or a test double) makes the (S)V constructor (un)available.
SetCtorAvail ==
  /\ Quiescent
  /\ ctorAvail' = ~ctorAvail
  /\ UNCHANGED <<newShortID, classAvail, heap, pending, lookups, issued, last, pc, frame>>

\* The caller handles the exception it found pending: ExceptionClear.
ExceptionClear ==
  \E e \in Envs :
    /\ pending[e]
    /\ pc[e] = "idle"
    /\ pending' = [pending EXCEPT ![e] = FALSE]
    /\ UNCHANGED <<newShortID, classAvail, ctorAvail, heap, lookups, issued, last, pc, frame>>

Next == Call \/ SetClassAvail \/ SetCtorAvail \/ ExceptionClear

Spec == Init /\ [][Next]_vars

\* ------------------------------------------- the call, one step at a time
InFlight == Cardinality({t \in Envs : pc[t] # "idle"})

\* Lines 21-22: thread t enters java_lang_Short_new(env_t, s).
Begin(t, s) ==
  /\ pc[t] = "idle"
  /\ Len(heap) + InFlight < MaxHeap
  /\ lookups + InFlight < MaxLookups
  /\ pc' = [pc EXCEPT ![t] = "test"]
  /\ frame' = [frame EXCEPT ![t] = [IdleFrame EXCEPT !.s = s]]
  /\ UNCHANGED <<newShortID, classAvail, ctorAvail, heap, pending, lookups, issued, last>>

\* Line 23, the macro's test of the cached identifier (one load of newShortID).
Test(t) ==
  LET r == ResolveNewShortID(newShortID, classAvail, ctorAvail)
  IN  /\ pc[t] = "test"
      /\ IF r.looked
           THEN /\ pc' = [pc EXCEPT ![t] = "lookup"]
                /\ frame' = [frame EXCEPT ![t].emptyAtEntry = TRUE]
           ELSE /\ pc' = [pc EXCEPT ![t] = "construct"]
                /\ frame' = [frame EXCEPT ![t].r = r.var]
      /\ UNCHANGED <<newShortID, classAvail, ctorAvail, heap, pending, lookups, issued, last>>

\* Line 23, the macro's lookup: GetMethodID, result still in a register.
Lookup(t) ==
  LET r == GetMethodID(classAvail, ctorAvail)
  IN  /\ pc[t] = "lookup"
      /\ lookups' = lookups + 1
      /\ pending' = IF r = NULL THEN [pending EXCEPT ![t] = TRUE] ELSE pending
      /\ frame' = [frame EXCEPT ![t].r = r, ![t].looked = TRUE]
      /\ pc' = [pc EXCEPT ![t] = "store"]
      /\ UNCHANGED <<newShortID, classAvail, ctorAvail, heap, issued, last>>

\* Line 23, the macro's store to newShortID, then lines 23-26: the early return.
Store(t) ==
  /\ pc[t] = "store"
  /\ newShortID' = frame[t].r
  /\ IF EarlyReturn(frame[t].r # NULL)
       THEN /\ pending' = OnFailure(pending, t)
            /\ frame' = [frame EXCEPT ![t].failed = TRUE, ![t].ret = NULL]
            /\ pc' = [pc EXCEPT ![t] = "done"]
       ELSE /\ pending' = pending
            /\ frame' = frame
            /\ pc' = [pc EXCEPT ![t] = "construct"]
  /\ UNCHANGED <<classAvail, ctorAvail, heap, lookups, issued, last>>

\* Line 27: NewObject with newShortID and s. newShortID is a plain static read
\* without synchronisation: the build may load it again or reuse the value the
\* macro just tested or stored.
Construct(t) ==
  /\ pc[t] = "construct"
  /\ \E mid \in {newShortID, frame[t].r} :
       \E out \in NewObject(heap, mid, PassArg(frame[t].s)) :
         /\ heap' = out.heap
         /\ issued' = IF out.ref # NULL
                        THEN Append(issued, <<out.ref, frame[t].s, t>>)
                        ELSE issued
         /\ frame' = [frame EXCEPT ![t].mid = mid, ![t].ret = out.ref]
  /\ pc' = [pc EXCEPT ![t] = "done"]
  /\ UNCHANGED <<newShortID, classAvail, ctorAvail, pending, lookups, last>>

\* The call returns frame[t].ret to its caller.
Return(t) ==
  /\ pc[t] = "done"
  /\ pc' = [pc EXCEPT ![t] = "idle"]
  /\ frame' = [frame EXCEPT ![t] = IdleFrame]
  /\ UNCHANGED <<newShortID, classAvail, ctorAvail, heap, pending, lookups, issued, last>>

BeginAny == \E t \in Envs, s \in ShortVals : Begin(t, s)
TestAny == \E t \in Envs : Test(t)
LookupAny == \E t \in Envs : Lookup(t)
StoreAny == \E t \in Envs : Store(t)
ConstructAny == \E t \in Envs : Construct(t)
ReturnAny == \E t \in Envs : Return(t)

NextConc ==
  \/ BeginAny \/ TestAny \/ LookupAny \/ StoreAny \/ ConstructAny \/ ReturnAny
  \/ SetClassAvail \/ SetCtorAvail \/ ExceptionClear

SpecConc == Init /\ [][NextConc]_vars

\* =================================================================== claims
\* The step is a completed call (Spec): a call looks the constructor up or,
\* with the identifier cached, constructs an object.
IsCall == lookups' # lookups \/ Len(heap') # Len(heap)
ValidRef(r) == r \in 1..Len(heap)

\* C1: on a correctly configured environment every call returns a non-absent
\* reference whose unboxed value equals the argument; the constructor receives
\* the argument unchanged, whether the identifier was resolved by this call or
\* taken from the cache.
C1_BoxedValueEqualsArgument ==
  (last.called /\ last.availAtCall) =>
    /\ last.ret # NULL
    /\ ValidRef(last.ret)
    /\ heap[last.ret] = last.arg
    /\ last.constructed
    /\ last.passed = last.arg
    /\ last.mid = ShortInitID

C1_Witness ==
  /\ last.called /\ last.availAtCall /\ ~last.looked
  /\ last.arg = 32767
  /\ ValidRef(last.ret) /\ heap[last.ret] = 32767
  /\ lookups = 1

\* C2: a call whose resolution attempt fails returns NULL at once, never
\* invokes NewObject and allocates nothing.
C2_FailedResolutionReturnsNull ==
  (last.called /\ last.looked /\ ~last.resolved) =>
    /\ last.ret = NULL
    /\ ~last.constructed
    /\ last.allocs = 0

C2_Witness ==
  /\ last.called /\ last.looked /\ ~last.resolved
  /\ last.arg = 5
  /\ last.ret = NULL
  /\ heap = <<>>

\* C3: once the cached identifier is non-empty no later call looks the
\* constructor up again; the call constructs with the cached identifier.
C3_ResolvedAtMostOnce ==
  /\ [][newShortID # NULL => lookups' = lookups]_vars
  /\ []((last.called /\ last.idAtEntry # NULL) =>
          (~last.looked /\ last.mid = last.idAtEntry))

C3_Witness ==
  /\ newShortID # NULL
  /\ last.called /\ last.idAtEntry # NULL /\ ~last.looked
  /\ lookups = 1
  /\ Len(heap) >= 2

\* C4 as claimed: whenever the class or the constructor is unavailable at the
\* time of a call, the call returns NULL and allocates nothing.
C4_Original ==
  (last.called /\ ~last.availAtCall) =>
    (last.ret = NULL /\ last.allocs = 0)

\* C4 amended: a call made while the class or the constructor is unavailable
\* and the cached identifier is still empty returns NULL and allocates
\* nothing; a call made after the cache was populated does not consult the
\* environment and constructs the object.
C4_UnavailableAndUncachedReturnsNull ==
  (last.called /\ ~last.availAtCall) =>
    IF last.idAtEntry = NULL
      THEN last.ret = NULL /\ last.allocs = 0 /\ ~last.constructed
      ELSE last.ret # NULL /\ last.allocs = 1 /\ ~last.looked

C4_Witness ==
  /\ last.called /\ ~last.availAtCall /\ last.idAtEntry = NULL
  /\ last.ret = NULL
  /\ lookups >= 2

\* C5: every successful call returns a fresh reference: references handed out
\* are pairwise distinct, each holds the value its call asked for, and the
\* reference a call returns did not exist before the call.
C5_FreshDistinctReferences ==
  /\ [](\A i \in 1..Len(issued) :
          /\ ValidRef(issued[i][1])
          /\ heap[issued[i][1]] = issued[i][2]
          /\ \A j \in 1..Len(issued) : i # j => issued[i][1] # issued[j][1])
  /\ [][\A i \in 1..Len(issued') :
          i > Len(issued) => issued'[i][1] > Len(heap)]_vars

C5_Witness ==
  /\ Len(issued) >= 2
  /\ issued[1][3] = issued[2][3]
  /\ issued[1][2] # issued[2][2]
  /\ issued[1][1] # issued[2][1]
  /\ heap[issued[1][1]] = issued[1][2]
  /\ heap[issued[2][1]] = issued[2][2]

\* C6: a call never clears a pending exception; when its resolution fails the
\* exception set by the failed lookup is still pending in its env on return;
\* a successful call leaves the exception state as it found it.
C6_ExceptionLeftPending ==
  [][IsCall =>
       /\ \A e \in Envs : pending[e] => pending'[e]
       /\ (last'.looked /\ ~last'.resolved) =>
             (last'.ret = NULL /\ pending'[last'.env])
       /\ (last'.ret # NULL) => pending' = pending]_vars

C6_Witness ==
  /\ last.called /\ last.ret = NULL /\ last.looked
  /\ pending[last.env]
  /\ \E e \in Envs : ~pending[e]

\* C8: the cached identifier starts empty, is always empty or the resolved
\* constructor identifier, and once non-empty never changes.
C8_WriteOnceCache ==
  /\ newShortID = NULL
  /\ [](newShortID \in {NULL, ShortInitID})
  /\ [][newShortID # NULL => newShortID' = newShortID]_vars

C8_Witness ==
  /\ newShortID = ShortInitID
  /\ last.called /\ ~last.availAtCall /\ last.idAtEntry = ShortInitID
  /\ ~classAvail /\ ~ctorAvail

\* C9: a call changes nothing but the heap, the cached identifier and (through
\* the runtime's failed lookup) the exception indicator of its own env: a
\* successful call allocates exactly one object and leaves every older object
\* as it was, a failed call allocates nothing; only calls allocate or write
\* the cached identifier.
C9_CallFrame ==
  [][/\ IsCall =>
          /\ classAvail' = classAvail /\ ctorAvail' = ctorAvail
          /\ pc' = pc /\ frame' = frame
          /\ \A e \in Envs : e # last'.env => pending'[e] = pending[e]
          /\ Len(heap') >= Len(heap)
          /\ SubSeq(heap', 1, Len(heap)) = heap
          /\ IF last'.looked /\ ~last'.resolved
               THEN heap' = heap /\ newShortID' = newShortID
               ELSE /\ Len(heap') = Len(heap) + 1
                    /\ newShortID' \in {newShortID, ShortInitID}
                    /\ pending' = pending
     /\ ~IsCall => (heap' = heap /\ newShortID' = newShortID)]_vars

C9_Witness ==
  /\ last.called /\ last.resolved /\ last.allocs = 1
  /\ Len(heap) = 1
  /\ newShortID = ShortInitID
  /\ \A e \in Envs : ~pending[e]

\* C10: a failed resolution leaves the cache empty; a call that finds the cache
\* empty attempts resolution again; the first such call in a correctly
\* configured environment populates the cache and returns the boxed argument.
C10_FailureNotCached ==
  /\ (last.called /\ last.looked /\ ~last.resolved) => newShortID = NULL
  /\ (heap = <<>>) => newShortID = NULL
  /\ (last.called /\ last.idAtEntry = NULL) => last.looked
  /\ (last.called /\ last.idAtEntry = NULL /\ last.availAtCall) =>
       /\ last.resolved
       /\ newShortID = ShortInitID
       /\ ValidRef(last.ret)
       /\ heap[last.ret] = last.arg

C10_Witness ==
  /\ last.called /\ last.resolved /\ last.availAtCall
  /\ lookups >= 3
  /\ Len(heap) = 1
  /\ heap[last.ret] = last.arg

\* C7: with several threads racing through their first use, every resolution
\* yields the same identifier, a store to the cached cell never changes a
\* non-empty cell, NewObject is only ever given the resolved identifier, and
\* every thread whose resolution did not fail gets its own fresh object holding
\* its own value.
C7_RaceIsHarmless ==
  /\ \A t \in Envs :
       /\ (pc[t] = "store") =>
            /\ frame[t].r \in {NULL, ShortInitID}
            /\ newShortID # NULL => frame[t].r = newShortID
       /\ (pc[t] = "construct") => frame[t].r = ShortInitID
       /\ (pc[t] = "done") =>
            IF frame[t].emptyAtEntry /\ frame[t].r = NULL
              THEN frame[t].ret = NULL /\ frame[t].mid = NULL
              ELSE /\ frame[t].mid = ShortInitID
                   /\ ValidRef(frame[t].ret)
                   /\ heap[frame[t].ret] = frame[t].s
  /\ \A t, u \in Envs :
       (t # u /\ pc[t] = "done" /\ pc[u] = "done" /\ frame[t].ret # NULL) =>
          frame[t].ret # frame[u].ret

C7_Witness ==
  /\ lookups >= 2
  /\ \E t, u \in Envs :
       /\ t # u
       /\ pc[t] = "done" /\ pc[u] = "done"
       /\ frame[t].emptyAtEntry /\ frame[u].emptyAtEntry
       /\ frame[t].looked /\ frame[u].looked
       /\ frame[t].s # frame[u].s
       /\ ValidRef(frame[t].ret) /\ ValidRef(frame[u].ret)
       /\ heap[frame[t].ret] = frame[t].s
       /\ heap[frame[u].ret] = frame[u].s

====
